---- MODULE Spec2Model ----
(***************************************************************************)
(* Model of scripts/moltbot-daily-report.py: one run of                    *)
(* generate_and_send_report (health check with retry, report generation    *)
(* through MCPClient.call_tool, local backup, channel delivery), and the   *)
(* capsule section as a function of the capsule list.                      *)
(***************************************************************************)
EXTENDS Integers, Sequences, FiniteSets, TLC

\* Longest capsule list drawn for the capsule-section specification.
MaxCapsules == 2

\* max_retries of generate_and_send_report.
max_retries == 3

(***************************************************************************)
(* Python values.  A decoded JSON value is a record                        *)
(*   t     : "dict", "list", "str" or "none"                               *)
(*   d     : for a dict, its scalar entries (key -> text)                  *)
(*   items : for a list, its elements; for a dict with a "data" key, the   *)
(*           list stored under that key                                    *)
(*   s     : for a str, the text.                                          *)
(* A list element is a record (it, d, s): a dict of texts or a str.        *)
(***************************************************************************)
EmptyDict == [k \in {} |-> ""]

PyDict(d, data) == [t |-> "dict", d |-> d, items |-> data, s |-> ""]

PyList(items) == [t |-> "list", d |-> EmptyDict, items |-> items, s |-> ""]

PyStr(s) == [t |-> "str", d |-> EmptyDict, items |-> <<>>, s |-> s]

PyNone == [t |-> "none", d |-> EmptyDict, items |-> <<>>, s |-> ""]

ItemDict(d) == [it |-> "dict", d |-> d, s |-> ""]

ItemStr(s) == [it |-> "str", d |-> EmptyDict, s |-> s]

\* dict.get(k, default)
Get(d, k, default) == IF k \in DOMAIN d THEN d[k] ELSE default

\* The texts of the model that contain the substring "error".
ErrorTexts == {"error", "no error today"}

\* Python's `"error" in v` for a dict (key), a list (element) or a str
\* (substring); None is not iterable and the test raises TypeError.
InRaises(v) == v.t = "none"

HasError(v) ==
    CASE v.t = "dict" -> "error" \in DOMAIN v.d
      [] v.t = "list" -> \E i \in 1..Len(v.items) :
                            v.items[i].it = "str" /\ v.items[i].s = "error"
      [] v.t = "str"  -> v.s \in ErrorTexts
      [] OTHER        -> FALSE

\* bool(v) of a decoded value: empty containers, "" and None are falsy.
Truthy(v) ==
    CASE v.t = "dict" -> DOMAIN v.d # {}
      [] v.t = "list" -> Len(v.items) > 0
      [] v.t = "str"  -> v.s # ""
      [] OTHER        -> FALSE

(***************************************************************************)
(* MCPClient.call_tool.  A response of the remote side is a record         *)
(*   kind    : "transport_error" (connection error, timeout, non-2xx),     *)
(*             "bad_body" (2xx whose body is not JSON) or "envelope"       *)
(*   error   : the envelope has an "error" field                           *)
(*   content : the envelope has a non-empty result.content                 *)
(*   json    : content[0].text is valid JSON                               *)
(*   payload : what that text decodes to                                   *)
(*   text    : the text itself.                                            *)
(* The result is (raised, val): an exception leaving call_tool, or the     *)
(* returned value.                                                         *)
(***************************************************************************)
Response(kind, error, content, json, payload, text) ==
    [kind |-> kind, error |-> error, content |-> content, json |-> json,
     payload |-> payload, text |-> text]

Returned(v) == [raised |-> FALSE, val |-> v]

Raised == [raised |-> TRUE, val |-> PyNone]

ErrorMarker == PyDict([k \in {"error"} |-> "request failed"], <<>>)

\* The decoded envelope itself, returned when it holds no content.
EnvelopeDict(resp) ==
    PyDict([k \in {"jsonrpc", "id"} \cup (IF resp.error THEN {"error"} ELSE {})
              |-> "envelope"], <<>>)

\* jsonIsRequestException: whether the installed requests library raises a
\* RequestException subclass from response.json() (it does from 2.27 on).
call_tool(resp, jsonIsRequestException) ==
    CASE resp.kind = "transport_error" -> Returned(ErrorMarker)
      [] resp.kind = "bad_body" ->
            IF jsonIsRequestException THEN Returned(ErrorMarker) ELSE Raised
      [] OTHER ->
            IF resp.error THEN Raised
            ELSE IF resp.content
                 THEN IF resp.json THEN Returned(resp.payload)
                      ELSE Returned(PyDict([k \in {"raw"} |-> resp.text], <<>>))
                 ELSE Returned(EnvelopeDict(resp))

(***************************************************************************)
(* Section generators, as functions of what call_tool gave.  A section is  *)
(* (raised, kind, lines): kind is "placeholder" for the "Data unavailable" *)
(* text; lines hold what the section prints below its heading.             *)
(***************************************************************************)
Section(kind, lines) == [raised |-> FALSE, kind |-> kind, lines |-> lines]

SectionRaised == [raised |-> TRUE, kind |-> "raised", lines |-> <<>>]

Placeholder == Section("placeholder", <<>>)

\* ReportGenerator._generate_occupancy_section
occupancy_section(r) ==
    IF r.raised \/ InRaises(r.val) THEN SectionRaised
    ELSE IF HasError(r.val) THEN Placeholder
    ELSE IF r.val.t # "dict" THEN SectionRaised  \* list/str have no .get
    ELSE Section("rendered",
                 << <<"Total Capsules", Get(r.val.d, "total", "0")>>,
                    <<"Occupied", Get(r.val.d, "occupied", "0")>>,
                    <<"Available", Get(r.val.d, "available", "0")>>,
                    <<"Occupancy Rate", Get(r.val.d, "occupancyRate", "0")>> >>)

\* `sections` of _generate_capsule_section, in dict insertion order.
sections == <<"back", "middle", "front">>

\* section_name.upper() + " SECTION"
section_title(name) ==
    CASE name = "back"   -> "BACK SECTION"
      [] name = "middle" -> "MIDDLE SECTION"
      [] OTHER           -> "FRONT SECTION"

\* The first loop: the capsules whose section tag is `name`, in list order.
capsule_list(items, name) ==
    SelectSeq(items, LAMBDA c : Get(c.d, "section", "unknown") = name)

\* isAvailable reading an absent flag as available: c.get("isAvailable", True).
isAvailable_default_true(c) == Get(c.d, "isAvailable", "true") = "true"

\* c.get("isAvailable") as a truth value: JSON true is "true"; false, or
\* an absent key (None), is falsy.
isAvailable(c) == Get(c.d, "isAvailable", "") = "true"

\* [c["number"] for c in capsule_list if <available = want>]
numbers(list, want) ==
    LET picked == SelectSeq(list, LAMBDA c : isAvailable(c) = want)
    IN  [i \in 1..Len(picked) |-> picked[i].d["number"]]

\* ', '.join(xs) if xs else 'None', as the text's fragments.
join_or_none(xs) ==
    IF Len(xs) = 0 THEN <<"None">>
    ELSE [i \in 1..(2 * Len(xs) - 1) |->
             IF i % 2 = 1 THEN xs[(i + 1) \div 2] ELSE ", "]

\* The block printed for one section; none when its list is empty.
section_block(items, name) ==
    LET list == capsule_list(items, name)
    IN  IF Len(list) = 0 THEN <<>>
        ELSE << [title |-> section_title(name), count |-> Len(list),
                 occupied |-> join_or_none(numbers(list, FALSE)),
                 available |-> join_or_none(numbers(list, TRUE))] >>

\* ReportGenerator._generate_capsule_section
capsule_section(r) ==
    IF r.raised \/ InRaises(r.val) THEN SectionRaised
    ELSE IF HasError(r.val) \/ r.val.t # "list" THEN Placeholder
    ELSE LET items == r.val.items
         IN  IF \E i \in 1..Len(items) : items[i].it # "dict"
             THEN SectionRaised             \* str has no .get
             ELSE IF \E i \in 1..Len(items) :
                        /\ Get(items[i].d, "section", "unknown")
                              \in {sections[j] : j \in 1..Len(sections)}
                        /\ "number" \notin DOMAIN items[i].d
                  THEN SectionRaised        \* c["number"]: KeyError
                  ELSE Section("rendered",
                               section_block(items, sections[1])
                               \o section_block(items, sections[2])
                               \o section_block(items, sections[3]))

\* ReportGenerator._generate_guest_section
guest_section(r) ==
    IF r.raised \/ InRaises(r.val) THEN SectionRaised
    ELSE IF HasError(r.val) THEN Placeholder
    ELSE LET guest_count ==
                 IF r.val.t = "dict" /\ "data" \in DOMAIN r.val.d
                 THEN Len(r.val.items)
                 ELSE IF r.val.t = "list" THEN Len(r.val.items) ELSE 0
         IN  Section("rendered", << <<"Checked-in Guests", guest_count>> >>)

\* ReportGenerator._generate_overdue_section
overdue_section(r) ==
    IF r.raised \/ InRaises(r.val) THEN SectionRaised
    ELSE IF HasError(r.val) THEN Placeholder
    ELSE IF ~Truthy(r.val) THEN Section("none", <<>>)
    ELSE IF r.val.t # "list" THEN SectionRaised  \* keys/characters: no .get
    ELSE IF \E i \in 1..Len(r.val.items) : r.val.items[i].it # "dict"
         THEN SectionRaised
         ELSE Section("rendered",
                      [i \in 1..Len(r.val.items) |->
                          << Get(r.val.items[i].d, "name", "Unknown"),
                             Get(r.val.items[i].d, "capsuleNumber", "N/A"),
                             Get(r.val.items[i].d, "expectedCheckoutDate", "N/A") >>])

\* ReportGenerator._generate_maintenance_section
maintenance_section(r) ==
    IF r.raised \/ InRaises(r.val) THEN SectionRaised
    ELSE IF HasError(r.val) THEN Placeholder
    ELSE IF r.val.t = "dict" /\ "raw" \in DOMAIN r.val.d
         THEN Section("verbatim", <<r.val.d["raw"]>>)
    ELSE IF r.val.t = "str" THEN Section("verbatim", <<r.val.s>>)
    ELSE Section("default", <<>>)

(***************************************************************************)
(* ReportDelivery.  Each send returns (result, events): the boolean it     *)
(* returns and, in order, what it did: the transport call with its         *)
(* outcome, and what it printed.  `ok` is whether the remote side accepts. *)
(***************************************************************************)
\* send_telegram without its credentials test.
send_telegram_unchecked(bot_token, chat_id, ok) ==
    IF ok
    THEN [result |-> TRUE,
          events |-> <<"POST telegram ok", "print Report sent via Telegram">>]
    ELSE [result |-> FALSE,
          events |-> <<"POST telegram failed", "print Telegram delivery failed">>]

send_telegram(bot_token, chat_id, ok) ==
    IF bot_token = "" \/ chat_id = ""
    THEN [result |-> FALSE,
          events |-> <<"print Telegram credentials not configured">>]
    ELSE IF ok
         THEN [result |-> TRUE,
               events |-> <<"POST telegram ok", "print Report sent via Telegram">>]
         ELSE [result |-> FALSE,
               events |-> <<"POST telegram failed", "print Telegram delivery failed">>]

send_whatsapp(api_url, ok) ==
    IF api_url = ""
    THEN [result |-> FALSE, events |-> <<"print WhatsApp API not configured">>]
    ELSE IF ok
         THEN [result |-> TRUE,
               events |-> <<"POST whatsapp ok", "print Report sent via WhatsApp">>]
         ELSE [result |-> FALSE,
               events |-> <<"POST whatsapp failed", "print WhatsApp delivery failed">>]

\* send_email has no configuration test of its own: it opens the SMTP
\* session with whatever the configuration holds.
send_email(ok) ==
    IF ok
    THEN [result |-> TRUE, events |-> <<"SMTP email ok", "print Report sent via Email">>]
    ELSE [result |-> FALSE, events |-> <<"SMTP email failed", "print Email delivery failed">>]

save_to_file(ok) ==
    IF ok
    THEN [result |-> TRUE, events |-> <<"write backup ok", "print Report saved">>]
    ELSE [result |-> FALSE, events |-> <<"write backup failed", "print File save failed">>]

(***************************************************************************)
(* The three delivery statements of generate_and_send_report, each giving  *)
(* the new delivery_success and the events of the call it makes (none when *)
(* the channel is not configured).                                         *)
(***************************************************************************)
deliver_telegram(bot_token, chat_id, ok) ==
    IF bot_token # "" /\ chat_id # ""
    THEN LET r == send_telegram(bot_token, chat_id, ok)
         IN  [success |-> r.result,
              events |-> <<"send_telegram report">> \o r.events]
    ELSE [success |-> FALSE, events |-> <<>>]

\* deliver_whatsapp with the operands of `or` swapped:
\* delivery_success or send_whatsapp(...), which skips the call once a
\* channel has succeeded.
deliver_whatsapp_short_circuit(success, api_url, ok) ==
    IF api_url # "" /\ ~success
    THEN LET r == send_whatsapp(api_url, ok)
         IN  [success |-> r.result,
              events |-> <<"send_whatsapp report">> \o r.events]
    ELSE [success |-> success, events |-> <<>>]

deliver_whatsapp(success, api_url, ok) ==
    IF api_url # ""
    THEN LET r == send_whatsapp(api_url, ok)
         IN  [success |-> r.result \/ success,
              events |-> <<"send_whatsapp report">> \o r.events]
    ELSE [success |-> success, events |-> <<>>]

deliver_email(success, sender, ok) ==
    IF sender # ""
    THEN LET r == send_email(ok)
         IN  [success |-> r.result \/ success,
              events |-> <<"send_email report">> \o r.events]
    ELSE [success |-> success, events |-> <<>>]

(***************************************************************************)
(* State of one run.                                                       *)
(***************************************************************************)
VARIABLES
    pc,                \* the statement generate_and_send_report is at
    cfg,               \* TELEGRAM_BOT_TOKEN, TELEGRAM_CHAT_ID, WHATSAPP_API_URL,
                       \* EMAIL_CONFIG["sender"], and the requests library's
                       \* json() behaviour
    request_id,        \* MCPClient.request_id
    attempt,           \* the loop variable of the health-check loop
    sent,              \* per payload posted: its "id", its tool name, and
                       \* whether the envelope answering it had an "error"
    report,            \* the sections appended by generate_report so far
    raised,            \* an exception has left generate_and_send_report
    delivery_success,  \* the local of generate_and_send_report
    trace,             \* what the run did, in order
    capsules,          \* capsule-section specification: the list returned
    capsule_out        \* capsule-section specification: the section generated

vars == <<pc, cfg, request_id, attempt, sent, report, raised,
          delivery_success, trace, capsules, capsule_out>>

capsule_vars == <<capsules, capsule_out>>

NotGenerated == [raised |-> FALSE, kind |-> "not generated", lines |-> <<>>]

\* The values a configuration string is drawn from: unset or set.
Texts(set) == {"", set}

Configs ==
    [token : Texts("123:abc"), chat : Texts("42"),
     whatsapp : Texts("https://wa.example/send"),
     sender : Texts("bot@example.org"),
     jsonIsRequestException : BOOLEAN]

(***************************************************************************)
(* What the remote side may answer to a tool call.                         *)
(***************************************************************************)
CapsuleF1 ==
    ItemDict([k \in {"section", "isAvailable", "number"} |->
                 CASE k = "section" -> "front" [] k = "isAvailable" -> "false"
                   [] OTHER -> "F1"])

CapsuleNoNumber == ItemDict([k \in {"section"} |-> "back"])

GuestRecord ==
    ItemDict([k \in {"name", "capsuleNumber"} |->
                 IF k = "name" THEN "Ali" ELSE "F1"])

Occupancy ==
    PyDict([k \in {"total", "occupied", "available", "occupancyRate"} |->
               CASE k = "total" -> "22" [] k = "occupied" -> "15"
                 [] k = "available" -> "7" [] OTHER -> "68"], <<>>)

Payloads ==
    { PyDict(EmptyDict, <<>>),
      Occupancy,
      PyDict([k \in {"data"} |-> "list"], <<GuestRecord>>),
      PyDict([k \in {"error"} |-> "not found"], <<>>),
      PyList(<<>>),
      PyList(<<CapsuleF1>>),
      PyList(<<CapsuleNoNumber>>),
      PyList(<<GuestRecord>>),
      PyList(<<ItemStr("F1")>>),
      PyStr("2 open issues"),
      PyStr("no error today"),
      PyNone }

Responses ==
    { Response("transport_error", FALSE, FALSE, FALSE, PyNone, ""),
      Response("bad_body", FALSE, FALSE, FALSE, PyNone, ""),
      Response("envelope", TRUE, FALSE, FALSE, PyNone, ""),
      Response("envelope", FALSE, FALSE, FALSE, PyNone, ""),
      Response("envelope", FALSE, TRUE, FALSE, PyNone, "2 open issues") }
    \cup { Response("envelope", FALSE, TRUE, TRUE, p, "") : p \in Payloads }

\* The responses one run is given: one per way call_tool can end (an
\* error marker, an exception, the raw-text fallback, decoded data).
RunResponses ==
    { Response("transport_error", FALSE, FALSE, FALSE, PyNone, ""),
      Response("envelope", TRUE, FALSE, FALSE, PyNone, ""),
      Response("envelope", FALSE, TRUE, FALSE, PyNone, "2 open issues"),
      Response("envelope", FALSE, TRUE, TRUE, PyList(<<CapsuleF1>>), "") }

(***************************************************************************)
(* How the query of a section went, as the specification words it: it      *)
(* "error"ed (no data, or an in-band error marker), it returned a value of *)
(* an unexpected "shape", or it was "ok".                                  *)
(***************************************************************************)
AllDicts(items) == \A i \in 1..Len(items) : items[i].it = "dict"

ExpectedShape(name, v) ==
    CASE name = "Occupancy" -> v.t = "dict"
      [] name = "Capsules"  ->
            /\ v.t = "list" /\ AllDicts(v.items)
            /\ \A i \in 1..Len(v.items) : "number" \in DOMAIN v.items[i].d
      [] name = "Guests"    ->
            \/ v.t = "list"
            \/ v.t = "dict" /\ "data" \in DOMAIN v.d
      [] name = "Overdue"   -> v.t = "list" /\ AllDicts(v.items)
      [] OTHER              -> v.t \in {"dict", "str"}

QueryClass(name, resp, r) ==
    IF resp.kind # "envelope" \/ resp.error THEN "error"
    ELSE IF ~r.raised /\ r.val.t = "dict" /\ "error" \in DOMAIN r.val.d
         THEN "error"
    ELSE IF ~r.raised /\ ExpectedShape(name, r.val) THEN "ok" ELSE "shape"

(***************************************************************************)
(* Initial states.                                                         *)
(***************************************************************************)
Init ==
    /\ pc = "start"
    /\ cfg \in Configs
    /\ request_id = 0
    /\ attempt = 0
    /\ sent = <<>>
    /\ report = <<>>
    /\ raised = FALSE
    /\ delivery_success = FALSE
    /\ trace = <<>>
    /\ capsules = <<>>
    /\ capsule_out = NotGenerated

(***************************************************************************)
(* generate_and_send_report, statement by statement.                       *)
(***************************************************************************)
\* mcp = MCPClient(MCP_URL)
Start ==
    /\ pc = "start"
    /\ pc' = "health"
    /\ request_id' = 0
    /\ attempt' = 0
    /\ UNCHANGED <<cfg, sent, report, raised, delivery_success, trace,
                   capsule_vars>>

\* One pass of the retry loop whose probe succeeds: break.
HealthCheckPassed ==
    /\ pc = "health"
    /\ trace' = Append(trace, "health_check ok")
    /\ pc' = "generate"
    /\ UNCHANGED <<cfg, request_id, attempt, sent, report, raised,
                   delivery_success, capsule_vars>>

\* health_failed_next with the alert branch lost: after the last failed probe
\* the loop ends and the run goes on to generate the report.
health_failed_next_falls_through(n) ==
    IF n < max_retries - 1
    THEN [pc |-> "health", attempt |-> n + 1, events |-> <<"sleep 5">>]
    ELSE [pc |-> "generate", attempt |-> n, events |-> <<>>]

\* health_failed_next sleeping after every failed probe, the last included.
health_failed_next_always_sleeps(n) ==
    IF n < max_retries - 1
    THEN [pc |-> "health", attempt |-> n + 1, events |-> <<"sleep 5">>]
    ELSE [pc |-> "alert", attempt |-> n, events |-> <<"sleep 5">>]

\* One pass whose probe fails: sleep and go round again, or give up.
health_failed_next(n) ==
    IF n < max_retries - 1
    THEN [pc |-> "health", attempt |-> n + 1, events |-> <<"sleep 5">>]
    ELSE [pc |-> "alert", attempt |-> n, events |-> <<>>]

HealthCheckFailed ==
    /\ pc = "health"
    /\ LET n == health_failed_next(attempt)
       IN  /\ trace' = Append(trace, "health_check failed") \o n.events
           /\ pc' = n.pc
           /\ attempt' = n.attempt
    /\ UNCHANGED <<cfg, request_id, sent, report, raised, delivery_success,
                   capsule_vars>>

\* SendAlert without its `return`: the run goes on after the alert.
SendAlert_no_return ==
    /\ pc = "alert"
    /\ \E ok \in BOOLEAN :
         trace' = trace \o <<"send_telegram alert">>
                        \o send_telegram(cfg.token, cfg.chat, ok).events
    /\ pc' = "generate"
    /\ UNCHANGED <<cfg, request_id, attempt, sent, report, raised,
                   delivery_success, capsule_vars>>

\* ReportDelivery.send_telegram(alert, ...); return
SendAlert ==
    /\ pc = "alert"
    /\ \E ok \in BOOLEAN :
         trace' = trace \o <<"send_telegram alert">>
                        \o send_telegram(cfg.token, cfg.chat, ok).events
    /\ pc' = "done"
    /\ UNCHANGED <<cfg, request_id, attempt, sent, report, raised,
                   delivery_success, capsule_vars>>

\* generator = ReportGenerator(mcp); generator.generate_report() is entered
BeginReport ==
    /\ pc = "generate"
    /\ trace' = Append(trace, "generate_report")
    /\ pc' = "occupancy"
    /\ UNCHANGED <<cfg, request_id, attempt, sent, report, raised,
                   delivery_success, capsule_vars>>

\* self._generate_<name>_section(), given what its call_tool returned.
generate_section(name, r) ==
    CASE name = "Occupancy" -> occupancy_section(r)
      [] name = "Capsules"  -> capsule_section(r)
      [] name = "Guests"    -> guest_section(r)
      [] name = "Overdue"   -> overdue_section(r)
      [] OTHER              -> maintenance_section(r)

\* One section of generate_report: the tool call, then the section text is
\* appended; an exception leaves generate_report and the run.
GenerateSection(at, next, tool, name, R) ==
    /\ pc = at
    /\ ~raised
    /\ \E resp \in R :
         LET r   == call_tool(resp, cfg.jsonIsRequestException)
             sec == generate_section(name, r)
         IN  /\ request_id' = request_id + 1
             /\ sent' = Append(sent, [id |-> request_id + 1, tool |-> tool,
                                      error |-> resp.kind = "envelope"
                                                /\ resp.error])
             /\ trace' = Append(trace, "POST mcp")
             /\ raised' = sec.raised
             /\ pc' = IF sec.raised THEN pc ELSE next
             /\ report' = IF sec.raised THEN report
                          ELSE Append(report,
                                      [name |-> name, kind |-> sec.kind,
                                       lines |-> sec.lines,
                                       query |-> QueryClass(name, resp, r)])
    /\ UNCHANGED <<cfg, attempt, delivery_success, capsule_vars>>

GenerateOccupancy(R) ==
    GenerateSection("occupancy", "capsules", "pelangi_get_occupancy",
                    "Occupancy", R)

GenerateCapsules(R) ==
    GenerateSection("capsules", "guests", "pelangi_list_capsules",
                    "Capsules", R)

GenerateGuests(R) ==
    GenerateSection("guests", "overdue", "pelangi_list_guests",
                    "Guests", R)

GenerateOverdue(R) ==
    GenerateSection("overdue", "maintenance", "pelangi_get_overdue_guests",
                    "Overdue", R)

GenerateMaintenance(R) ==
    GenerateSection("maintenance", "footer", "pelangi_export_whatsapp_issues",
                    "Maintenance", R)

\* The footer, and generate_report returns the joined text.
ReturnReport ==
    /\ pc = "footer"
    /\ trace' = Append(trace, "generate_report returned")
    /\ pc' = "save"
    /\ UNCHANGED <<cfg, request_id, attempt, sent, report, raised,
                   delivery_success, capsule_vars>>

\* ReportDelivery.save_to_file(report); delivery_success = False
SaveBackup ==
    /\ pc = "save"
    /\ \E ok \in BOOLEAN :
         trace' = trace \o <<"save_to_file">> \o save_to_file(ok).events
    /\ delivery_success' = FALSE
    /\ pc' = "telegram"
    /\ UNCHANGED <<cfg, request_id, attempt, sent, report, raised,
                   capsule_vars>>

DeliverTelegram ==
    /\ pc = "telegram"
    /\ \E ok \in BOOLEAN :
         LET r == deliver_telegram(cfg.token, cfg.chat, ok)
         IN  /\ delivery_success' = r.success
             /\ trace' = trace \o r.events
    /\ pc' = "whatsapp"
    /\ UNCHANGED <<cfg, request_id, attempt, sent, report, raised,
                   capsule_vars>>

DeliverWhatsapp ==
    /\ pc = "whatsapp"
    /\ \E ok \in BOOLEAN :
         LET r == deliver_whatsapp(delivery_success, cfg.whatsapp, ok)
         IN  /\ delivery_success' = r.success
             /\ trace' = trace \o r.events
    /\ pc' = "email"
    /\ UNCHANGED <<cfg, request_id, attempt, sent, report, raised,
                   capsule_vars>>

DeliverEmail ==
    /\ pc = "email"
    /\ \E ok \in BOOLEAN :
         LET r == deliver_email(delivery_success, cfg.sender, ok)
         IN  /\ delivery_success' = r.success
             /\ trace' = trace \o r.events
    /\ pc' = "finish"
    /\ UNCHANGED <<cfg, request_id, attempt, sent, report, raised,
                   capsule_vars>>

\* if not delivery_success: print(...); the closing banner; return
finish_events(success) ==
    IF ~success THEN <<"print No delivery channels configured">> ELSE <<>>

Finish ==
    /\ pc = "finish"
    /\ trace' = trace \o finish_events(delivery_success)
    /\ pc' = "done"
    /\ UNCHANGED <<cfg, request_id, attempt, sent, report, raised,
                   delivery_success, capsule_vars>>

Next ==
    \/ Start
    \/ HealthCheckPassed
    \/ HealthCheckFailed
    \/ SendAlert
    \/ BeginReport
    \/ GenerateOccupancy(RunResponses)
    \/ GenerateCapsules(RunResponses)
    \/ GenerateGuests(RunResponses)
    \/ GenerateOverdue(RunResponses)
    \/ GenerateMaintenance(RunResponses)
    \/ ReturnReport
    \/ SaveBackup
    \/ DeliverTelegram
    \/ DeliverWhatsapp
    \/ DeliverEmail
    \/ Finish

Spec == Init /\ [][Next]_vars

(***************************************************************************)
(* generate_report alone, on a fresh client, over every response of        *)
(* Responses for each of the five tools.                                   *)
(***************************************************************************)
InitReport ==
    /\ pc = "occupancy"
    /\ cfg \in {c \in Configs : c.token = "" /\ c.chat = ""
                                 /\ c.whatsapp = "" /\ c.sender = ""}
    /\ request_id = 0
    /\ attempt = 0
    /\ sent = <<>>
    /\ report = <<>>
    /\ raised = FALSE
    /\ delivery_success = FALSE
    /\ trace = <<>>
    /\ capsules = <<>>
    /\ capsule_out = NotGenerated

NextReport ==
    \/ GenerateOccupancy(Responses)
    \/ GenerateCapsules(Responses)
    \/ GenerateGuests(Responses)
    \/ GenerateOverdue(Responses)
    \/ GenerateMaintenance(Responses)
    \/ ReturnReport

SpecReport == InitReport /\ [][NextReport]_vars

(***************************************************************************)
(* _generate_capsule_section as a function of the capsule list the tool    *)
(* returns: every list of at most MaxCapsules records, each with or        *)
(* without a section tag, an availability flag and a number.               *)
(***************************************************************************)
Absent == "-"

CapsuleRecord(section, available, number) ==
    ItemDict([k \in {x \in {"section", "isAvailable", "number"} :
                        CASE x = "section" -> section # Absent
                          [] x = "isAvailable" -> available # Absent
                          [] OTHER -> number # Absent}
                 |-> CASE k = "section" -> section
                       [] k = "isAvailable" -> available
                       [] OTHER -> number])

CapsuleRecords ==
    { CapsuleRecord(sec, av, num) :
        sec \in {"back", "middle", "front", "attic", Absent},
        av \in {"true", "false", Absent},
        num \in {"C1", "C2", Absent} }

CapsuleLists == UNION { [1..n -> CapsuleRecords] : n \in 0..MaxCapsules }

InitCapsule ==
    /\ pc = "capsules"
    /\ cfg \in {c \in Configs : c.token = "" /\ c.chat = "" /\ c.whatsapp = ""
                                 /\ c.sender = "" /\ c.jsonIsRequestException}
    /\ request_id = 0
    /\ attempt = 0
    /\ sent = <<>>
    /\ report = <<>>
    /\ raised = FALSE
    /\ delivery_success = FALSE
    /\ trace = <<>>
    /\ capsules \in CapsuleLists
    /\ capsule_out = NotGenerated

\* _generate_capsule_section when the tool returns the list `capsules`.
CapsuleSection ==
    /\ pc = "capsules"
    /\ LET resp == Response("envelope", FALSE, TRUE, TRUE, PyList(capsules), "")
           sec  == capsule_section(call_tool(resp, cfg.jsonIsRequestException))
       IN  /\ capsule_out' = sec
           /\ raised' = sec.raised
    /\ request_id' = request_id + 1
    /\ sent' = Append(sent, [id |-> request_id + 1,
                             tool |-> "pelangi_list_capsules",
                             error |-> FALSE])
    /\ trace' = Append(trace, "POST mcp")
    /\ pc' = "guests"
    /\ UNCHANGED <<cfg, attempt, report, delivery_success, capsules>>

NextCapsule == CapsuleSection

SpecCapsule == InitCapsule /\ [][NextCapsule]_vars

(***************************************************************************)
(* Vocabulary of the properties.                                           *)
(***************************************************************************)
Count(e) == Cardinality({i \in 1..Len(trace) : trace[i] = e})

Happened(e) == \E i \in 1..Len(trace) : trace[i] = e

\* Every occurrence of a precedes every occurrence of b.
Before(a, b) ==
    \A i, j \in 1..Len(trace) : trace[i] = a /\ trace[j] = b => i < j

ProbeEvents == {"health_check ok", "health_check failed"}

ReportSends == {"send_telegram report", "send_whatsapp report", "send_email report"}

TransportEvents ==
    {"POST telegram ok", "POST telegram failed", "POST whatsapp ok",
     "POST whatsapp failed", "SMTP email ok", "SMTP email failed"}

TransportOk == {"POST telegram ok", "POST whatsapp ok", "SMTP email ok"}

CountIn(S) == Cardinality({i \in 1..Len(trace) : trace[i] \in S})

\* The state of the run's state machine the statement `at` belongs to.
Phase(at) ==
    CASE at = "start" -> "IDLE"
      [] at = "health" -> "HEALTH_CHECK"
      [] at = "alert" -> "FAILED_ALERT"
      [] at \in {"generate", "occupancy", "capsules", "guests", "overdue",
                 "maintenance", "footer"} -> "GENERATING"
      [] at \in {"save", "telegram", "whatsapp", "email", "finish"} -> "DELIVERING"
      [] OTHER -> "DONE"

\* generate_and_send_report is over: it returned, or an exception left it.
RunEnded == pc = "done" \/ raised

HealthFailed == Count("health_check failed") = max_retries

HealthPassed == Happened("health_check ok")

TelegramConfigured == cfg.token # "" /\ cfg.chat # ""

(***************************************************************************)
(* C1.  A tool-call response whose envelope carries an "error" field makes *)
(* call_tool return an error marker instead of raising, and the section    *)
(* that issued the call renders its "Data unavailable" placeholder: no     *)
(* exception leaves call_tool, the section generator or generate_report.   *)
(* The i-th call of a run is the i-th section's.                           *)
(***************************************************************************)
C1_ErrorEnvelopeDegrades ==
    \A i \in 1..Len(sent) :
        sent[i].error =>
            /\ ~raised
            /\ Len(report) >= i
            /\ report[i].kind = "placeholder"

(***************************************************************************)
(* C2.  In a run whose health probe failed on all three attempts, exactly  *)
(* one alert delivery attempt is made, through send_telegram, and there is *)
(* no report generation, no tool call, no backup write and no report       *)
(* delivery.                                                               *)
(***************************************************************************)
C2_FailedHealthOnlyAlerts ==
    HealthFailed =>
        /\ Count("send_telegram alert") <= 1
        /\ (pc = "done" <=> Count("send_telegram alert") = 1)
        /\ CountIn({"POST whatsapp ok", "POST whatsapp failed",
                    "SMTP email ok", "SMTP email failed"}) = 0
        /\ CountIn({"POST telegram ok", "POST telegram failed"})
              <= Count("send_telegram alert")
        /\ ~Happened("generate_report")
        /\ Len(report) = 0
        /\ Len(sent) = 0 /\ ~Happened("POST mcp")
        /\ ~Happened("save_to_file")
        /\ CountIn(ReportSends) = 0

\* A run that ended after three failed probes and an alert whose own
\* delivery failed.
C2_Witness ==
    /\ pc = "done"
    /\ HealthFailed
    /\ Count("send_telegram alert") = 1
    /\ Happened("POST telegram failed")

(***************************************************************************)
(* C3.  Every run moves along IDLE -> HEALTH_CHECK -> (FAILED_ALERT |      *)
(* GENERATING) -> DELIVERING -> DONE, FAILED_ALERT ending the run: the     *)
(* report is generated only after a probe of the run succeeded, delivery   *)
(* starts only after generate_report returned, no state is entered again   *)
(* once left, and no run both sends the alert and generates, backs up or   *)
(* delivers a report.                                                      *)
(***************************************************************************)
PhaseEdges ==
    { <<"IDLE", "HEALTH_CHECK">>,
      <<"HEALTH_CHECK", "FAILED_ALERT">>, <<"HEALTH_CHECK", "GENERATING">>,
      <<"FAILED_ALERT", "DONE">>,
      <<"GENERATING", "DELIVERING">>, <<"DELIVERING", "DONE">> }

C3_PhaseState ==
    /\ (Phase(pc) = "GENERATING" \/ Happened("generate_report")
          \/ Len(sent) > 0) => HealthPassed
    /\ (Phase(pc) = "DELIVERING" \/ Happened("save_to_file")
          \/ CountIn(ReportSends) > 0)
          => Happened("generate_report returned") /\ Len(report) = 5
    /\ Phase(pc) = "FAILED_ALERT" => ~HealthPassed
    /\ Happened("send_telegram alert")
          => /\ ~Happened("generate_report")
             /\ ~Happened("save_to_file")
             /\ CountIn(ReportSends) = 0
             /\ Phase(pc) = "DONE"

C3_PhaseStep ==
    Phase(pc') # Phase(pc) => <<Phase(pc), Phase(pc')>> \in PhaseEdges

C3_RunFollowsPath == [](C3_PhaseState) /\ [][C3_PhaseStep]_vars

\* A run that passed the health check on its third probe, generated the
\* report and delivered it.
C3_Witness ==
    /\ pc = "done"
    /\ Count("health_check failed") = 2
    /\ HealthPassed
    /\ Len(report) = 5
    /\ delivery_success

(***************************************************************************)
(* C4.  In the delivery step every configured channel (Telegram, WhatsApp  *)
(* API, email) is attempted exactly once, whatever the channels before it  *)
(* returned, and delivery_success ends true exactly when at least one      *)
(* attempted channel returned success.                                     *)
(***************************************************************************)
C4_EveryConfiguredChannelOnce ==
    /\ \A e \in ReportSends : Count(e) <= 1
    /\ (Happened("save_to_file") /\ pc \in {"whatsapp", "email", "finish", "done"})
          => (Count("send_telegram report") = 1 <=> TelegramConfigured)
    /\ (Happened("save_to_file") /\ pc \in {"email", "finish", "done"})
          => (Count("send_whatsapp report") = 1 <=> cfg.whatsapp # "")
    /\ (Happened("save_to_file") /\ pc \in {"finish", "done"})
          => /\ (Count("send_email report") = 1 <=> cfg.sender # "")
             /\ (delivery_success <=> CountIn(TransportOk) > 0)
             /\ CountIn(TransportEvents) = CountIn(ReportSends)

\* Telegram succeeded and the two channels after it were still attempted,
\* and failed.
C4_Witness ==
    /\ pc = "done"
    /\ Happened("POST telegram ok")
    /\ Happened("POST whatsapp failed")
    /\ Happened("SMTP email failed")
    /\ delivery_success

(***************************************************************************)
(* C5.  In every run that passes the health check the backup write         *)
(* (save_to_file) is attempted exactly once, after the report is generated *)
(* and before the first remote channel attempt, whatever the channel       *)
(* configuration and the channels' outcomes; a failed write does not stop  *)
(* the remote channels.                                                    *)
(***************************************************************************)
C5_BackupOnceInEveryPassedRun ==
    (HealthPassed /\ RunEnded) =>
        /\ Count("save_to_file") = 1
        /\ Before("generate_report returned", "save_to_file")
        /\ \A e \in ReportSends : Before("save_to_file", e)
        /\ TelegramConfigured => Happened("send_telegram report")
        /\ cfg.whatsapp # "" => Happened("send_whatsapp report")
        /\ cfg.sender # "" => Happened("send_email report")

(***************************************************************************)
(* C6.  The five sections are generated independently: whatever each tool  *)
(* answers, generate_report returns a report with the sections Occupancy,  *)
(* Capsules, Guests, Overdue, Maintenance in that order, no exception      *)
(* leaves it, and every section whose query errored or returned an         *)
(* unexpected shape shows the "Data unavailable" placeholder.              *)
(***************************************************************************)
SectionOrder == <<"Occupancy", "Capsules", "Guests", "Overdue", "Maintenance">>

C6_SectionsDegradeIndependently ==
    /\ ~raised
    /\ Len(report) <= Len(SectionOrder)
    /\ pc \in {"footer", "save"} => Len(report) = Len(SectionOrder)
    /\ \A i \in 1..Len(report) :
          /\ report[i].name = SectionOrder[i]
          /\ report[i].query # "ok" => report[i].kind = "placeholder"

(***************************************************************************)
(* C7, as claimed.  An unconfigured channel is skipped with a logged       *)
(* notice and is not treated as a failure: no transport call is made for   *)
(* it, a notice is logged for it (its own, or the run's "No delivery       *)
(* channels configured" line), and it does not by itself make the delivery *)
(* outcome a failure; for the three channels of the report-delivery step   *)
(* and for the alert after a failed health check.                          *)
(***************************************************************************)
TelegramPosts == {"POST telegram ok", "POST telegram failed"}

WhatsappPosts == {"POST whatsapp ok", "POST whatsapp failed"}

EmailSessions == {"SMTP email ok", "SMTP email failed"}

GeneralNotice == "print No delivery channels configured"

C7_UnconfiguredSkippedWithNotice ==
    /\ ~TelegramConfigured => CountIn(TelegramPosts) = 0
    /\ cfg.whatsapp = "" => CountIn(WhatsappPosts) = 0
    /\ cfg.sender = "" => CountIn(EmailSessions) = 0
    /\ (pc = "done" /\ HealthFailed /\ ~TelegramConfigured)
          => Happened("print Telegram credentials not configured")
    /\ (pc = "done" /\ HealthPassed) =>
          /\ ~TelegramConfigured =>
                \/ Happened("print Telegram credentials not configured")
                \/ Happened(GeneralNotice)
          /\ cfg.whatsapp = "" =>
                \/ Happened("print WhatsApp API not configured")
                \/ Happened(GeneralNotice)
          /\ cfg.sender = "" => Happened(GeneralNotice)
          /\ CountIn(TransportOk) > 0 => delivery_success

(***************************************************************************)
(* C7, amended.  An unconfigured channel is skipped and is not treated as  *)
(* a failure: no transport call is made for it, and delivery_success is    *)
(* true whenever a configured channel succeeded.  In the report-delivery   *)
(* step the skip is silent: no channel prints its own notice, and the only *)
(* notice is the line "No delivery channels configured", printed exactly   *)
(* when no channel succeeded.  For the alert after a failed health check   *)
(* send_telegram is called and prints "Telegram credentials not            *)
(* configured" exactly when Telegram is unconfigured.                      *)
(***************************************************************************)
C7_UnconfiguredSkipped ==
    /\ ~TelegramConfigured => CountIn(TelegramPosts) = 0
    /\ cfg.whatsapp = "" => CountIn(WhatsappPosts) = 0
    /\ cfg.sender = "" => CountIn(EmailSessions) = 0
    /\ HealthPassed =>
          /\ ~Happened("print Telegram credentials not configured")
          /\ ~Happened("print WhatsApp API not configured")
          /\ pc = "done" =>
                /\ Happened(GeneralNotice) <=> ~delivery_success
                /\ delivery_success <=> CountIn(TransportOk) > 0
          /\ pc # "done" => ~Happened(GeneralNotice)
    /\ (pc = "done" /\ HealthFailed) =>
          /\ Count("print Telegram credentials not configured")
                = (IF TelegramConfigured THEN 0 ELSE 1)
          /\ ~Happened(GeneralNotice)

\* A delivered report with Telegram and email unconfigured and WhatsApp
\* succeeding: nothing is printed about the two skipped channels.
C7_Witness ==
    /\ pc = "done"
    /\ HealthPassed
    /\ ~TelegramConfigured
    /\ cfg.sender = ""
    /\ Happened("POST whatsapp ok")
    /\ delivery_success
    /\ ~Happened(GeneralNotice)

(***************************************************************************)
(* C9, as claimed.  The health check is a bounded retry: at most three     *)
(* probes per run, none after a successful one, a 5-second wait only       *)
(* between two consecutive failed attempts (at most two waits, none after  *)
(* the third failure), and the run is declared failed only after three     *)
(* failed probes.                                                          *)
(***************************************************************************)
NoProbeAfterSuccess ==
    \A i, j \in 1..Len(trace) :
        (i < j /\ trace[i] = "health_check ok") => trace[j] \notin ProbeEvents

FailedOnlyAfterThree ==
    (pc = "alert" \/ Happened("send_telegram alert"))
        => Count("health_check failed") = 3 /\ ~HealthPassed

C9_WaitBetweenFailedProbes ==
    /\ CountIn(ProbeEvents) <= 3
    /\ NoProbeAfterSuccess
    /\ Count("sleep 5") <= 2
    /\ \A i \in 1..Len(trace) :
          trace[i] = "sleep 5" =>
              /\ i > 1 /\ trace[i - 1] = "health_check failed"
              /\ i < Len(trace) => trace[i + 1] = "health_check failed"
    /\ FailedOnlyAfterThree

(***************************************************************************)
(* C9, amended.  As claimed, but the wait lies between a failed attempt    *)
(* and the next attempt, which may succeed: a 5-second wait occurs only    *)
(* directly after a failed first or second probe and is followed by the    *)
(* next probe; every failed first or second probe is followed by the wait. *)
(***************************************************************************)
FailedBefore(i) ==
    Cardinality({j \in 1..(i - 1) : trace[j] = "health_check failed"})

C9_BoundedRetry ==
    /\ CountIn(ProbeEvents) <= 3
    /\ NoProbeAfterSuccess
    /\ Count("sleep 5") <= 2
    /\ \A i \in 1..Len(trace) :
          /\ trace[i] = "sleep 5" =>
                /\ i > 1 /\ trace[i - 1] = "health_check failed"
                /\ FailedBefore(i) < 3
                /\ i < Len(trace) => trace[i + 1] \in ProbeEvents
          /\ (trace[i] = "health_check failed" /\ FailedBefore(i) < 2) =>
                i < Len(trace) /\ trace[i + 1] = "sleep 5"
    /\ FailedOnlyAfterThree
    /\ HealthFailed => Phase(pc) \in {"FAILED_ALERT", "DONE"}

\* One failed probe, the wait, and a second probe that succeeds.
C9_Witness ==
    /\ Len(trace) >= 3
    /\ trace[1] = "health_check failed"
    /\ trace[2] = "sleep 5"
    /\ trace[3] = "health_check ok"
    /\ Count("sleep 5") = 1

(***************************************************************************)
(* C10.  The request id of a client counts its calls: it starts at 0,      *)
(* every call_tool adds one before sending, whether the call succeeds or   *)
(* fails, so the n-th call carries id n; health_check leaves it unchanged; *)
(* and one generate_report sends exactly five tool calls, with ids 1 to 5, *)
(* in section order.                                                       *)
(***************************************************************************)
ToolOrder ==
    <<"pelangi_get_occupancy", "pelangi_list_capsules", "pelangi_list_guests",
      "pelangi_get_overdue_guests", "pelangi_export_whatsapp_issues">>

\* generate_report is over: it returned, or an exception left it.
GenerationEnded == Happened("generate_report returned") \/ raised

C10_RequestIdsCountCalls ==
    /\ request_id = Len(sent)
    /\ \A i \in 1..Len(sent) : sent[i].id = i
    /\ Len(sent) <= Len(ToolOrder)
    /\ \A i \in 1..Len(sent) : sent[i].tool = ToolOrder[i]
    /\ GenerationEnded => Len(sent) = Len(ToolOrder)

(***************************************************************************)
(* C8.  For any list of capsule records (each carrying its number), the    *)
(* capsule section sorts the records by section tag into the groups back,  *)
(* middle and front: a record with another tag, or none, appears in no     *)
(* group; a record with a known tag appears exactly once, under Occupied   *)
(* when its availability flag is false or absent and under Available when  *)
(* it is true; the count shown for a group is its Occupied plus Available  *)
(* entries; an empty side is shown as None; a group without members is     *)
(* left out.                                                               *)
(***************************************************************************)
KnownGroups == {"back", "middle", "front"}

GroupTitle(g) ==
    CASE g = "back" -> "BACK SECTION"
      [] g = "middle" -> "MIDDLE SECTION"
      [] g = "front" -> "FRONT SECTION"

\* The numbers a printed side lists: its fragments without the separators.
Entries(side) ==
    IF side = <<"None">> THEN <<>> ELSE SelectSeq(side, LAMBDA x : x # ", ")

Times(seq, x) == Cardinality({i \in 1..Len(seq) : seq[i] = x})

\* The records of the list that carry the section tag g.
Members(g) ==
    {i \in 1..Len(capsules) :
        "section" \in DOMAIN capsules[i].d /\ capsules[i].d["section"] = g}

FlagTrue(i) ==
    "isAvailable" \in DOMAIN capsules[i].d /\ capsules[i].d["isAvailable"] = "true"

AllNumbered ==
    \A i \in 1..Len(capsules) : "number" \in DOMAIN capsules[i].d

GroupShown(g, block) ==
    LET occ == {i \in Members(g) : ~FlagTrue(i)}
        av  == {i \in Members(g) : FlagTrue(i)}
    IN  /\ \A x \in {"C1", "C2"} :
              /\ Times(Entries(block.occupied), x)
                    = Cardinality({i \in occ : capsules[i].d["number"] = x})
              /\ Times(Entries(block.available), x)
                    = Cardinality({i \in av : capsules[i].d["number"] = x})
        /\ Len(Entries(block.occupied)) = Cardinality(occ)
        /\ Len(Entries(block.available)) = Cardinality(av)
        /\ block.count = Len(Entries(block.occupied)) + Len(Entries(block.available))
        /\ block.count = Cardinality(Members(g))
        /\ occ = {} <=> block.occupied = <<"None">>
        /\ av = {} <=> block.available = <<"None">>

====
